---- MODULE Spec2Model ----
(***************************************************************************)
(* A model of serial-win-rs: the Windows serial-port Connection of         *)
(* src/src/lib.rs and the device-control-block helpers of src/src/ffi.rs.  *)
(* The host (kernel32) is the environment: every host call answers with a  *)
(* success flag and a last-error code chosen by the environment.           *)
(***************************************************************************)
EXTENDS Integers, Sequences, FiniteSets, TLC

VARIABLES pc, host, last, dcb, waiter

vars == <<pc, host, last, dcb, waiter>>

(***************************************************************************)
(* Bounds of the model.                                                    *)
(***************************************************************************)
MaxStream == 3      \* longest input stream the device delivers
MaxBuf == 1         \* longest prior content of the Vec handed to read_until
MaxReadLen == 2     \* longest slice handed to read / write
MaxCode == 1790     \* host codes given to the error translator: 0..MaxCode
UnmatchedCode == 31 \* a host code the translator has no arm for
MaxWaits == 2       \* waits an Event Waiter completes

(***************************************************************************)
(* Host error codes (libc::consts::os::extra and ffi.rs).                  *)
(***************************************************************************)
ERROR_FILE_NOT_FOUND == 2
ERROR_ACCESS_DENIED == 5
ERROR_INVALID_HANDLE == 6
ERROR_NOT_ENOUGH_MEMORY == 8
ERROR_OPERATION_ABORTED == 995
ERROR_INVALID_USER_BUFFER == 1784

NOPARITY == 0
ONESTOPBIT == 0

DCBFDtrControl_lo == 16
DCBFDtrControl_hi == 32
DCBFlagsAll == 65535

(***************************************************************************)
(* io::Result                                                              *)
(***************************************************************************)
Ok(v) == [ok |-> TRUE, val |-> v]
Err(e) == [ok |-> FALSE, err |-> e]

(***************************************************************************)
(* format!("{:x}"): lower-case hexadecimal digits of a c_int (two's        *)
(* complement for a negative value).                                       *)
(***************************************************************************)
HexDigit(d) == <<"0","1","2","3","4","5","6","7","8","9","a","b","c","d","e","f">>[d + 1]

RECURSIVE HexNat(_)
HexNat(n) == IF n < 16 THEN <<HexDigit(n)>>
             ELSE HexNat(n \div 16) \o <<HexDigit(n % 16)>>

\* The k low hexadecimal digits of n, zero-padded.
RECURSIVE HexFixed(_, _)
HexFixed(n, k) == IF k = 0 THEN <<>>
                  ELSE HexFixed(n \div 16, k - 1) \o <<HexDigit(n % 16)>>

\* A negative c_int prints as its 32-bit two's complement: 2^32 + n.
LowerHex(n) == IF n < 0
               THEN LET m == (n + 2147483647) + 1
                    IN  <<HexDigit(8 + (m \div 268435456))>> \o HexFixed(m % 268435456, 7)
               ELSE HexNat(n)

(***************************************************************************)
(* system_to_io_err: host code -> io::Error (kind, formatted text).  The   *)
(* text is the sequence of the pieces format! concatenates; GraveAccent     *)
(* stands for the character U+0060 that encloses the operation name.       *)
(***************************************************************************)
GraveAccent == "U+0060"

\* Mutant: the arm for ERROR_INVALID_HANDLE is missing.
ErrorKindAndMessage_no_handle_arm(error_code) ==
    CASE error_code = ERROR_ACCESS_DENIED -> <<"AlreadyExists", "Access denied. Resource might be busy">>
      [] error_code = ERROR_FILE_NOT_FOUND -> <<"NotFound", "Serial port not found">>
      [] error_code = ERROR_INVALID_USER_BUFFER -> <<"InvalidInput", "Supplied buffer is invalid">>
      [] error_code = ERROR_NOT_ENOUGH_MEMORY -> <<"Other", "Too many I/O requests, not enough memory">>
      [] error_code = ERROR_OPERATION_ABORTED -> <<"Interrupted", "Operation was canceled">>
      [] OTHER -> <<"Other", "unmatched error">>

ErrorKindAndMessage(error_code) ==
    CASE error_code = ERROR_ACCESS_DENIED -> <<"AlreadyExists", "Access denied. Resource might be busy">>
      [] error_code = ERROR_FILE_NOT_FOUND -> <<"NotFound", "Serial port not found">>
      [] error_code = ERROR_INVALID_USER_BUFFER -> <<"InvalidInput", "Supplied buffer is invalid">>
      [] error_code = ERROR_NOT_ENOUGH_MEMORY -> <<"Other", "Too many I/O requests, not enough memory">>
      [] error_code = ERROR_OPERATION_ABORTED -> <<"Interrupted", "Operation was canceled">>
      [] error_code = ERROR_INVALID_HANDLE -> <<"InvalidInput", "Communications handle is invalid">>
      [] OTHER -> <<"Other", "unmatched error">>

system_to_io_err(operation, error_code) ==
    LET km == ErrorKindAndMessage(error_code)
    IN  [kind |-> km[1],
         text |-> <<"Operation ", GraveAccent, operation, GraveAccent, " failed with code 0x">>
                  \o LowerHex(error_code)
                  \o <<" and message \"", km[2], "\"">>]

(***************************************************************************)
(* Error::new(kind, message)                                               *)
(***************************************************************************)
ErrorNew(kind, message) == [kind |-> kind, text |-> <<message>>]

(***************************************************************************)
(* bitflags over a WORD: remove is bits & !other, insert is bits | other.  *)
(***************************************************************************)
RECURSIVE BitAnd(_, _)
BitAnd(a, b) == IF a = 0 \/ b = 0 THEN 0
                ELSE (a % 2) * (b % 2) + 2 * BitAnd(a \div 2, b \div 2)

RECURSIVE BitOr(_, _)
BitOr(a, b) == IF a = 0 THEN b
               ELSE IF b = 0 THEN a
               ELSE (IF a % 2 = 1 \/ b % 2 = 1 THEN 1 ELSE 0)
                    + 2 * BitOr(a \div 2, b \div 2)

remove(bits, other) == BitAnd(bits, DCBFlagsAll - other)
insert(bits, other) == BitOr(bits, other)

(***************************************************************************)
(* DCB::set_dtr_control                                                    *)
(***************************************************************************)
DTR_CONTROL == {"DISABLE", "ENABLE", "HANDSHAKE"}

\* Mutant: ENABLE sets the low bit without clearing the high bit.
set_dtr_control_enable_keeps_hi(self, control) ==
    CASE control = "DISABLE" ->
            [self EXCEPT !.flags = remove(@, BitOr(DCBFDtrControl_lo, DCBFDtrControl_hi))]
      [] control = "ENABLE" ->
            [self EXCEPT !.flags = insert(@, DCBFDtrControl_lo)]
      [] control = "HANDSHAKE" ->
            [self EXCEPT !.flags = insert(@, BitOr(DCBFDtrControl_lo, DCBFDtrControl_hi))]

\* Mutant: HANDSHAKE assigns the two bits instead of inserting them.
set_dtr_control_handshake_assigns(self, control) ==
    CASE control = "DISABLE" ->
            [self EXCEPT !.flags = remove(@, BitOr(DCBFDtrControl_lo, DCBFDtrControl_hi))]
      [] control = "ENABLE" ->
            [self EXCEPT !.flags = insert(remove(@, DCBFDtrControl_hi), DCBFDtrControl_lo)]
      [] control = "HANDSHAKE" ->
            [self EXCEPT !.flags = BitOr(DCBFDtrControl_lo, DCBFDtrControl_hi)]

set_dtr_control(self, control) ==
    CASE control = "DISABLE" ->
            [self EXCEPT !.flags = remove(@, BitOr(DCBFDtrControl_lo, DCBFDtrControl_hi))]
      [] control = "ENABLE" ->
            [self EXCEPT !.flags = insert(remove(@, DCBFDtrControl_hi), DCBFDtrControl_lo)]
      [] control = "HANDSHAKE" ->
            [self EXCEPT !.flags = insert(@, BitOr(DCBFDtrControl_lo, DCBFDtrControl_hi))]

(***************************************************************************)
(* The host.  w is the world a handler runs in: the host state h and the   *)
(* host calls issued so far by the handler.  e is the host's script for    *)
(* the handler: which of its calls fails (failAt, 0 for none) and with     *)
(* which last-error code, whether purge and close succeed, at which call   *)
(* a read comes back empty (zeroAt) and how many bytes a transfer moves.   *)
(***************************************************************************)
Fails(w, e) == Len(w.calls) + 1 = e.failAt

Min(a, b) == IF a < b THEN a ELSE b

\* A host call on the handle: it is logged with its answer (success flag,
\* last-error code, bytes transferred); on success the host state becomes h2.
\* A call on a handle that is not open fails with ERROR_INVALID_HANDLE.
HostCall(w, name, arg, ok, err, n, h2) ==
    LET valid == w.h.handle = "open"
        ret   == [ok |-> valid /\ ok,
                  err |-> IF valid THEN err ELSE ERROR_INVALID_HANDLE,
                  n |-> IF valid /\ ok THEN n ELSE 0]
        h3    == IF ret.ok THEN h2 ELSE w.h
    IN  [w |-> [h |-> [h3 EXCEPT !.stale = @ \/ ~valid],
                calls |-> Append(w.calls, [name |-> name, arg |-> arg, ret |-> ret])],
         ok |-> ret.ok, err |-> ret.err, n |-> ret.n]

\* The device name a NUL-terminated UTF-16 string denotes.
RECURSIVE UntilNul(_)
UntilNul(units) == IF units = <<>> \/ Head(units) = 0 THEN <<>>
                   ELSE <<Head(units)>> \o UntilNul(Tail(units))

\* CreateFileW with OPEN_EXISTING: INVALID_HANDLE_VALUE (ok = FALSE) when the
\* device does not exist or the host refuses.
CreateFileW(w, e, port_u16) ==
    LET exists == UntilNul(port_u16) \in w.h.ports
        ret    == [ok |-> exists /\ ~Fails(w, e),
                   err |-> IF exists THEN e.code ELSE ERROR_FILE_NOT_FOUND,
                   n |-> 0]
    IN  [w |-> [h |-> IF ret.ok THEN [w.h EXCEPT !.handle = "open"] ELSE w.h,
                calls |-> Append(w.calls, [name |-> "CreateFileW", arg |-> port_u16,
                                           ret |-> ret])],
         ok |-> ret.ok, err |-> ret.err]

GetCommState(w, e) ==
    LET g == HostCall(w, "GetCommState", <<>>, ~Fails(w, e), e.code, 0, w.h)
    IN  [w |-> g.w, ok |-> g.ok, err |-> g.err, dcb |-> w.h.dcb]

SetCommState(w, e, d) ==
    HostCall(w, "SetCommState", d, ~Fails(w, e), e.code, 0, [w.h EXCEPT !.dcb = d])

SetCommTimeouts(w, e, t) ==
    HostCall(w, "SetCommTimeouts", t, ~Fails(w, e), e.code, 0, [w.h EXCEPT !.timeouts = t])

PurgeComm(w, e, flags) ==
    HostCall(w, "PurgeComm", flags, e.purgeOk, e.code, 0, w.h)

\* ReadFile moves n bytes of the pending input into the caller's buffer;
\* success with n = 0 is the expiry of the read timeout.
ReadFile(w, e, len) ==
    LET n == IF Len(w.calls) + 1 = e.zeroAt THEN 0
             ELSE Min(len, Min(e.n, Len(w.h.stream)))
        g == HostCall(w, "ReadFile", len, ~Fails(w, e), e.code, n,
                      [w.h EXCEPT !.stream = SubSeq(@, n + 1, Len(@))])
    IN  [w |-> g.w, ok |-> g.ok, err |-> g.err, n |-> g.n,
         data |-> SubSeq(w.h.stream, 1, g.n)]

WriteFile(w, e, len) ==
    HostCall(w, "WriteFile", len, ~Fails(w, e), e.code, Min(len, e.n), w.h)

FlushFileBuffers(w, e) ==
    HostCall(w, "FlushFileBuffers", <<>>, ~Fails(w, e), e.code, 0, w.h)

\* CloseHandle returns zero when it fails.
CloseHandle(w, e) ==
    LET g == HostCall(w, "CloseHandle", <<>>, e.closeOk, e.code, 0,
                      [w.h EXCEPT !.handle = "closed"])
    IN  [g EXCEPT !.w.h.closes = @ + 1]

\* CommEventFlags the device reports.
EV_RXCHAR == 1
EV_TXEMPTY == 4

\* WaitCommEvent blocks until an event of the mask occurs and stores the
\* observed events (n); it neither configures nor closes the handle.
WaitCommEvent(w, e, observed) ==
    HostCall(w, "WaitCommEvent", <<>>, ~Fails(w, e), e.code, observed, w.h)

(***************************************************************************)
(* Connection.  Every method takes the world and the host's script and     *)
(* returns the world after it together with its io::Result.                *)
(***************************************************************************)
\* r.and_then(f) and r.map(f) are written out: f is applied to the world and
\* the value of an Ok r, an Err r is passed on as it is.
comm_state(w, e) ==
    LET g == GetCommState(w, e)
    IN  IF g.ok THEN [w |-> g.w, res |-> Ok(g.dcb)]
        ELSE [w |-> g.w, res |-> Err(system_to_io_err("GetCommState", g.err))]

set_comm_state(w, e, d) ==
    LET g == SetCommState(w, e, d)
    IN  IF g.ok THEN [w |-> g.w, res |-> Ok(<<>>)]
        ELSE [w |-> g.w, res |-> Err(system_to_io_err("SetCommState", g.err))]

\* Mutant: the write constant is left at zero.
COMMTIMEOUTS_write_constant_zero(timeout_ms) ==
    [ReadIntervalTimeout |-> timeout_ms,
     ReadTotalTimeoutMultiplier |-> timeout_ms,
     ReadTotalTimeoutConstant |-> timeout_ms,
     WriteTotalTimeoutMultiplier |-> timeout_ms,
     WriteTotalTimeoutConstant |-> 0]

COMMTIMEOUTS(timeout_ms) ==
    [ReadIntervalTimeout |-> timeout_ms,
     ReadTotalTimeoutMultiplier |-> timeout_ms,
     ReadTotalTimeoutConstant |-> timeout_ms,
     WriteTotalTimeoutMultiplier |-> timeout_ms,
     WriteTotalTimeoutConstant |-> timeout_ms]

set_timeout(w, e, timeout_ms) ==
    LET g == SetCommTimeouts(w, e, COMMTIMEOUTS(timeout_ms))
    IN  IF g.ok THEN [w |-> g.w, res |-> Ok(<<>>)]
        ELSE [w |-> g.w, res |-> Err(system_to_io_err("SetCommTimeouts", g.err))]

set_baud_rate(w, e, baud_rate) ==
    LET r == comm_state(w, e)
    IN  IF r.res.ok THEN set_comm_state(r.w, e, [r.res.val EXCEPT !.BaudRate = baud_rate])
        ELSE r

set_byte_size(w, e, byte_size) ==
    LET r == comm_state(w, e)
    IN  IF r.res.ok THEN set_comm_state(r.w, e, [r.res.val EXCEPT !.ByteSize = byte_size])
        ELSE r

\* Mutant: a failed read is not passed on; a zeroed block is written.
set_parity_ignores_read_error(w, e, parity) ==
    LET r == comm_state(w, e)
    IN  IF r.res.ok THEN set_comm_state(r.w, e, [r.res.val EXCEPT !.Parity = parity])
        ELSE set_comm_state(r.w, e, [[f \in DOMAIN w.h.dcb |-> 0] EXCEPT !.Parity = parity])

set_parity(w, e, parity) ==
    LET r == comm_state(w, e)
    IN  IF r.res.ok THEN set_comm_state(r.w, e, [r.res.val EXCEPT !.Parity = parity])
        ELSE r

\* Mutant: the stop bits are written into the parity field.
set_stop_bits_writes_parity(w, e, stop_bits) ==
    LET r == comm_state(w, e)
    IN  IF r.res.ok THEN set_comm_state(r.w, e, [r.res.val EXCEPT !.Parity = stop_bits])
        ELSE r

set_stop_bits(w, e, stop_bits) ==
    LET r == comm_state(w, e)
    IN  IF r.res.ok THEN set_comm_state(r.w, e, [r.res.val EXCEPT !.StopBits = stop_bits])
        ELSE r

\* Mutant: a failed ReadFile closes the handle before the error is returned.
read_closes_on_error(w, e, len) ==
    IF len = 0 THEN [w |-> w, res |-> Ok(0), data |-> <<>>]
    ELSE LET g == ReadFile(w, e, len)
         IN  IF g.ok
             THEN IF g.n = 0
                  THEN [w |-> g.w, res |-> Err(ErrorNew("TimedOut", "Operation timed out")),
                        data |-> <<>>]
                  ELSE [w |-> g.w, res |-> Ok(g.n), data |-> g.data]
             ELSE [w |-> CloseHandle(g.w, e).w,
                   res |-> Err(system_to_io_err("read", g.err)), data |-> <<>>]

\* Mutant: no early return for an empty slice.
read_always_calls_host(w, e, len) ==
    LET g == ReadFile(w, e, len)
    IN  IF g.ok
        THEN IF g.n = 0
             THEN [w |-> g.w, res |-> Err(ErrorNew("TimedOut", "Operation timed out")),
                   data |-> <<>>]
             ELSE [w |-> g.w, res |-> Ok(g.n), data |-> g.data]
        ELSE [w |-> g.w, res |-> Err(system_to_io_err("read", g.err)), data |-> <<>>]

\* Mutant: a successful transfer of zero bytes is returned as Ok(0).
read_zero_is_ok(w, e, len) ==
    IF len = 0 THEN [w |-> w, res |-> Ok(0), data |-> <<>>]
    ELSE LET g == ReadFile(w, e, len)
         IN  IF g.ok THEN [w |-> g.w, res |-> Ok(g.n), data |-> g.data]
             ELSE [w |-> g.w, res |-> Err(system_to_io_err("read", g.err)), data |-> <<>>]

\* io::Read::read on a slice of len bytes; data is what it left in the slice.
read(w, e, len) ==
    IF len = 0 THEN [w |-> w, res |-> Ok(0), data |-> <<>>]
    ELSE LET g == ReadFile(w, e, len)
         IN  IF g.ok
             THEN IF g.n = 0
                  THEN [w |-> g.w, res |-> Err(ErrorNew("TimedOut", "Operation timed out")),
                        data |-> <<>>]
                  ELSE [w |-> g.w, res |-> Ok(g.n), data |-> g.data]
             ELSE [w |-> g.w, res |-> Err(system_to_io_err("read", g.err)), data |-> <<>>]

\* Mutant: the delimiter is pushed before the return.
RECURSIVE read_until_pushes_delim(_, _, _, _)
read_until_pushes_delim(w, e, delim, b) ==
    LET r == read(w, e, 1)
    IN  IF ~r.res.ok THEN [w |-> r.w, res |-> r.res, buf |-> b]
        ELSE IF r.res.val = 0
        THEN [w |-> r.w, res |-> Err(ErrorNew("Other", "Delimiter was not found")), buf |-> b]
        ELSE IF r.data[1] = delim
        THEN [w |-> r.w, res |-> Ok(Len(b)), buf |-> Append(b, r.data[1])]
        ELSE read_until_pushes_delim(r.w, e, delim, Append(b, r.data[1]))

\* read_until: the loop over one-byte reads; b is the caller's Vec.
RECURSIVE read_until(_, _, _, _)
read_until(w, e, delim, b) ==
    LET r == read(w, e, 1)
    IN  IF ~r.res.ok THEN [w |-> r.w, res |-> r.res, buf |-> b]
        ELSE IF r.res.val = 0
        THEN [w |-> r.w, res |-> Err(ErrorNew("Other", "Delimiter was not found")), buf |-> b]
        ELSE IF r.data[1] = delim
        THEN [w |-> r.w, res |-> Ok(Len(b)), buf |-> b]
        ELSE read_until(r.w, e, delim, Append(b, r.data[1]))

read_line(w, e, b) == read_until(w, e, 10, b)

\* Mutant: the failure is reported under the name of read.
write_named_read(w, e, len) ==
    LET g == WriteFile(w, e, len)
    IN  IF g.ok THEN [w |-> g.w, res |-> Ok(g.n)]
        ELSE [w |-> g.w, res |-> Err(system_to_io_err("read", g.err))]

write(w, e, len) ==
    LET g == WriteFile(w, e, len)
    IN  IF g.ok THEN [w |-> g.w, res |-> Ok(g.n)]
        ELSE [w |-> g.w, res |-> Err(system_to_io_err("write", g.err))]

flush(w, e) ==
    LET g == FlushFileBuffers(w, e)
    IN  IF g.ok THEN [w |-> g.w, res |-> Ok(<<>>)]
        ELSE [w |-> g.w, res |-> Err(system_to_io_err("flush", g.err))]

\* Mutant: the handle is closed twice.
drop_closes_twice(w, e) ==
    LET g == CloseHandle(CloseHandle(w, e).w, e)
    IN  [w |-> g.w, panicked |-> ~g.ok]

\* Mutant: the answer of CloseHandle is not looked at.
drop_ignores_close_failure(w, e) ==
    LET g == CloseHandle(w, e)
    IN  [w |-> g.w, panicked |-> FALSE]

\* Drop for Connection: a failed CloseHandle panics.
drop(w, e) ==
    LET g == CloseHandle(w, e)
    IN  [w |-> g.w, panicked |-> ~g.ok]

PURGE_RXCLEAR_TXCLEAR == 12

\* The configuration chain of Connection::new on the opened conn, one
\* operator per closure: each is applied to an Ok result and passes an Err on.
map_set_dtr_control(r) ==
    IF r.res.ok THEN [w |-> r.w, res |-> Ok(set_dtr_control(r.res.val, "ENABLE"))] ELSE r

and_then_set_comm_state(r, e) ==
    IF r.res.ok THEN set_comm_state(r.w, e, r.res.val) ELSE r

and_then_set_baud_rate(r, e, baud_rate) ==
    IF r.res.ok THEN set_baud_rate(r.w, e, baud_rate) ELSE r

and_then_set_byte_size(r, e) ==
    IF r.res.ok THEN set_byte_size(r.w, e, 8) ELSE r

and_then_set_stop_bits(r, e) ==
    IF r.res.ok THEN set_stop_bits(r.w, e, ONESTOPBIT) ELSE r

and_then_set_parity(r, e) ==
    IF r.res.ok THEN set_parity(r.w, e, NOPARITY) ELSE r

\* Mutant: a failed PurgeComm ends the chain with an error.
and_then_checked_purge_set_timeout(r, e) ==
    IF r.res.ok
    THEN IF e.purgeOk
         THEN set_timeout(PurgeComm(r.w, e, PURGE_RXCLEAR_TXCLEAR).w, e, 40)
         ELSE [w |-> PurgeComm(r.w, e, PURGE_RXCLEAR_TXCLEAR).w,
               res |-> Err(system_to_io_err("PurgeComm", e.code))]
    ELSE r

\* The result of PurgeComm is not looked at.
and_then_purge_set_timeout(r, e) ==
    IF r.res.ok THEN set_timeout(PurgeComm(r.w, e, PURGE_RXCLEAR_TXCLEAR).w, e, 40) ELSE r

\* Mutant: the parity is set before the stop bits.
configure_parity_before_stop_bits(w, e, baud_rate) ==
    and_then_purge_set_timeout(
      and_then_set_stop_bits(
        and_then_set_parity(
          and_then_set_byte_size(
            and_then_set_baud_rate(
              and_then_set_comm_state(
                map_set_dtr_control(comm_state(w, e)), e),
              e, baud_rate),
            e),
          e),
        e),
      e)

configure(w, e, baud_rate) ==
    and_then_purge_set_timeout(
      and_then_set_parity(
        and_then_set_stop_bits(
          and_then_set_byte_size(
            and_then_set_baud_rate(
              and_then_set_comm_state(
                map_set_dtr_control(comm_state(w, e)), e),
              e, baud_rate),
            e),
          e),
        e),
      e)

\* Mutant: conn is forgotten, not dropped, when the chain fails.
new_leaks_handle(w, e, port, baud_rate) ==
    LET o == CreateFileW(w, e, Append(port, 0))
    IN  IF ~o.ok
        THEN [w |-> o.w, res |-> Err(system_to_io_err("Open port", o.err)),
              panicked |-> FALSE]
        ELSE LET r == configure(o.w, e, baud_rate)
             IN  IF r.res.ok
                 THEN [w |-> r.w, res |-> Ok("conn"), panicked |-> FALSE]
                 ELSE [w |-> r.w, res |-> r.res, panicked |-> FALSE]

\* Mutant: the handle is not compared with INVALID_HANDLE_VALUE.
new_ignores_invalid_handle(w, e, port, baud_rate) ==
    LET o == CreateFileW(w, e, Append(port, 0))
        r == configure(o.w, e, baud_rate)
    IN  IF r.res.ok
        THEN [w |-> r.w, res |-> Ok("conn"), panicked |-> FALSE]
        ELSE LET d == drop(r.w, e)
             IN  [w |-> d.w, res |-> r.res, panicked |-> d.panicked]

\* Connection::new.  conn lives from the successful CreateFileW on; when the
\* chain ends in Err the closure holding conn is never called and conn is
\* dropped before new returns.
new(w, e, port, baud_rate) ==
    LET o == CreateFileW(w, e, Append(port, 0))
    IN  IF ~o.ok
        THEN [w |-> o.w, res |-> Err(system_to_io_err("Open port", o.err)),
              panicked |-> FALSE]
        ELSE LET r == configure(o.w, e, baud_rate)
             IN  IF r.res.ok
                 THEN [w |-> r.w, res |-> Ok("conn"), panicked |-> FALSE]
                 ELSE LET d == drop(r.w, e)
                      IN  [w |-> d.w, res |-> r.res, panicked |-> d.panicked]

(***************************************************************************)
(* Inputs.                                                                 *)
(***************************************************************************)
COM8 == <<67, 79, 77, 56>>
COM9 == <<67, 79, 77, 57>>
Ports == {COM8, COM9}

Bytes == {10, 97}

SeqsUpTo(S, n) == UNION {[1..k -> S] : k \in 0..n}

Streams == SeqsUpTo(Bytes, MaxStream)
Bufs == SeqsUpTo(Bytes, MaxBuf)

Codes == {ERROR_ACCESS_DENIED, UnmatchedCode}

\* Flag words the device may hold before it is opened: the four patterns of
\* the DTR bits, with the other bits clear, mixed or all set.
HostFlags == {33, 65487}

HostDCB(flags) ==
    [DCBlength |-> 28, BaudRate |-> 1200, flags |-> flags, fDummy |-> 0,
     wReserved |-> 0, XonLim |-> 2048, XoffLim |-> 512, ByteSize |-> 5,
     Parity |-> 4, StopBits |-> 1, XonChar |-> 17, XoffChar |-> 19,
     ErrorChar |-> 0, EofChar |-> 0, EvtChar |-> 0, wReserved1 |-> 0]

HostTimeouts ==
    [ReadIntervalTimeout |-> 1,
     ReadTotalTimeoutMultiplier |-> 2,
     ReadTotalTimeoutConstant |-> 3,
     WriteTotalTimeoutMultiplier |-> 4,
     WriteTotalTimeoutConstant |-> 5]

Host0(flags, stream) ==
    [handle |-> "invalid", ports |-> {COM8}, dcb |-> HostDCB(flags),
     timeouts |-> HostTimeouts, stream |-> stream, closes |-> 0, stale |-> FALSE]

\* The host's scripts.  After a success the last-error slot holds a stale
\* code, which the handlers must not look at.
NoFail == [failAt |-> 0, code |-> ERROR_ACCESS_DENIED, purgeOk |-> TRUE,
           closeOk |-> TRUE, zeroAt |-> 0, n |-> MaxReadLen]

\* One of the first n host calls of the handler fails.
FailScripts(n) == {[NoFail EXCEPT !.failAt = f, !.code = c] : f \in 1..n, c \in Codes}

CfgScripts(n) == {NoFail} \cup FailScripts(n)

\* Reads also time out (zeroAt) and transfer less than asked for (n).
ReadScripts(n) ==
    CfgScripts(n)
    \cup {[NoFail EXCEPT !.zeroAt = z] : z \in 1..n}
    \cup {[NoFail EXCEPT !.n = m] : m \in 1..MaxReadLen}

CloseScripts == {[NoFail EXCEPT !.closeOk = k] : k \in BOOLEAN}

NewScripts ==
    {[s EXCEPT !.purgeOk = p, !.closeOk = k] :
        s \in CfgScripts(15), p \in BOOLEAN, k \in BOOLEAN}

NoOp == [op |-> "none", args |-> <<>>, res |-> Ok(<<>>), calls |-> <<>>,
         pre |-> <<>>, buf |-> <<>>, panicked |-> FALSE]

Done(op, args, r) ==
    [op |-> op, args |-> args, res |-> r.res, calls |-> r.w.calls,
     pre |-> host, buf |-> <<>>, panicked |-> FALSE]

W == [h |-> host, calls |-> <<>>]

\* The Event Waiter before it is obtained.
NoWaiter == [state |-> "none", waits |-> 0, res |-> Ok(<<>>), calls |-> <<>>,
             since |-> <<>>]

(***************************************************************************)
(* What the caller passes and what the device holds.  The state machine is *)
(* the same under both; IOInputs is wide in the byte stream and passes     *)
(* the line settings new installs, CfgInputs is wide in the line settings  *)
(* and narrow in the byte stream.                                          *)
(***************************************************************************)
IOInputs ==
    [ports |-> Ports, bauds |-> {9600}, byteSizes |-> {8}, parities |-> {NOPARITY},
     stopBits |-> {ONESTOPBIT}, timeoutsMs |-> {40}, flags |-> {33},
     streams |-> Streams, bufs |-> Bufs, delims |-> Bytes, lens |-> 0..MaxReadLen]

CfgInputs ==
    [ports |-> Ports, bauds |-> {9600, 115200}, byteSizes |-> {7, 8},
     parities |-> {NOPARITY, 2},
     stopBits |-> {ONESTOPBIT, 2}, timeoutsMs |-> {0, 40}, flags |-> HostFlags,
     streams |-> {<<10>>}, bufs |-> {<<>>}, delims |-> {10}, lens |-> {0, 1}]

(***************************************************************************)
(* The state machine: one Connection from construction to destruction.     *)
(***************************************************************************)
Init(D) ==
    /\ pc = "none"
    /\ host \in {Host0(f, s) : f \in D.flags, s \in D.streams}
    /\ last = NoOp
    /\ dcb = HostDCB(0)
    /\ waiter = NoWaiter

\* What new leaves behind: Ok(conn), the Err of the failed step, or the
\* panic of the drop of conn.
Constructed(args, r) ==
    /\ host' = r.w.h
    /\ pc' = IF r.panicked THEN "panicked"
             ELSE IF r.res.ok THEN "open" ELSE "failed"
    /\ last' = [Done("new", args, r) EXCEPT !.panicked = r.panicked]
    /\ UNCHANGED <<dcb, waiter>>

New(D) ==
    /\ pc = "none"
    /\ \E port \in D.ports, baud_rate \in D.bauds, e \in NewScripts :
          Constructed(<<port, baud_rate>>, new(W, e, port, baud_rate))

Method(op, args, r) ==
    /\ host' = r.w.h
    /\ last' = Done(op, args, r)
    /\ UNCHANGED <<pc, dcb, waiter>>

SetTimeout(D) ==
    /\ pc = "open"
    /\ \E ms \in D.timeoutsMs, e \in CfgScripts(1) :
          Method("set_timeout", <<ms>>, set_timeout(W, e, ms))

\* comm_state().map(|dcb| dcb.field)
project(r, field) == IF r.res.ok THEN [w |-> r.w, res |-> Ok(r.res.val[field])] ELSE r

GetBaudRate(D) ==
    /\ pc = "open"
    /\ \E e \in CfgScripts(1) :
          Method("baud_rate", <<>>, project(comm_state(W, e), "BaudRate"))

SetBaudRate(D) ==
    /\ pc = "open"
    /\ \E v \in D.bauds, e \in CfgScripts(2) :
          Method("set_baud_rate", <<v>>, set_baud_rate(W, e, v))

GetByteSize(D) ==
    /\ pc = "open"
    /\ \E e \in CfgScripts(1) :
          Method("byte_size", <<>>, project(comm_state(W, e), "ByteSize"))

SetByteSize(D) ==
    /\ pc = "open"
    /\ \E v \in D.byteSizes, e \in CfgScripts(2) :
          Method("set_byte_size", <<v>>, set_byte_size(W, e, v))

GetParity(D) ==
    /\ pc = "open"
    /\ \E e \in CfgScripts(1) :
          Method("parity", <<>>, project(comm_state(W, e), "Parity"))

SetParity(D) ==
    /\ pc = "open"
    /\ \E v \in D.parities, e \in CfgScripts(2) :
          Method("set_parity", <<v>>, set_parity(W, e, v))

GetStopBits(D) ==
    /\ pc = "open"
    /\ \E e \in CfgScripts(1) :
          Method("stop_bits", <<>>, project(comm_state(W, e), "StopBits"))

SetStopBits(D) ==
    /\ pc = "open"
    /\ \E v \in D.stopBits, e \in CfgScripts(2) :
          Method("set_stop_bits", <<v>>, set_stop_bits(W, e, v))

Read(D) ==
    /\ pc = "open"
    /\ \E len \in D.lens, e \in ReadScripts(1) :
          LET r == read(W, e, len)
          IN  /\ host' = r.w.h
              /\ last' = [Done("read", <<len>>, r) EXCEPT !.buf = r.data]
    /\ UNCHANGED <<pc, dcb, waiter>>

ReadUntil(D) ==
    /\ pc = "open"
    /\ \E delim \in D.delims, b \in D.bufs, e \in ReadScripts(Len(host.stream) + 1) :
          LET r == read_until(W, e, delim, b)
          IN  /\ host' = r.w.h
              /\ last' = [Done("read_until", <<delim, b>>, r) EXCEPT !.buf = r.buf]
    /\ UNCHANGED <<pc, dcb, waiter>>

ReadLine(D) ==
    /\ pc = "open"
    /\ \E b \in D.bufs, e \in ReadScripts(Len(host.stream) + 1) :
          LET r == read_line(W, e, b)
          IN  /\ host' = r.w.h
              /\ last' = [Done("read_line", <<b>>, r) EXCEPT !.buf = r.buf]
    /\ UNCHANGED <<pc, dcb, waiter>>

Write(D) ==
    /\ pc = "open"
    /\ \E len \in D.lens, e \in ReadScripts(1) :
          Method("write", <<len>>, write(W, e, len))

Flush(D) ==
    /\ pc = "open"
    /\ \E e \in CfgScripts(1) :
          Method("flush", <<>>, flush(W, e))

Drop(D) ==
    /\ pc = "open"
    /\ \E e \in CloseScripts :
          LET d == drop(W, e)
          IN  /\ host' = d.w.h
              /\ pc' = IF d.panicked THEN "panicked" ELSE "dropped"
              /\ last' = [op |-> "drop", args |-> <<>>, res |-> Ok(<<>>),
                          calls |-> d.w.calls, pre |-> host, buf |-> <<>>,
                          panicked |-> d.panicked]
    /\ UNCHANGED <<dcb, waiter>>

Next(D) ==
    \/ New(D)
    \/ SetTimeout(D)
    \/ GetBaudRate(D)
    \/ SetBaudRate(D)
    \/ GetByteSize(D)
    \/ SetByteSize(D)
    \/ GetParity(D)
    \/ SetParity(D)
    \/ GetStopBits(D)
    \/ SetStopBits(D)
    \/ Read(D)
    \/ ReadUntil(D)
    \/ ReadLine(D)
    \/ Write(D)
    \/ Flush(D)
    \/ Drop(D)

Spec == Init(IOInputs) /\ [][Next(IOInputs)]_vars

SpecCfg == Init(CfgInputs) /\ [][Next(CfgInputs)]_vars

(***************************************************************************)
(* The Event Waiter: a second thread holding a copy of the Connection's    *)
(* handle.  Its wait is in two steps, the call into the host and the       *)
(* return from it, and the Connection's operations run between the two.    *)
(* A wait that returns after the handle was closed is a host call on a     *)
(* handle that is no longer open.                                          *)
(***************************************************************************)
\* wait_for_event: the observed mask, or the raw host code.
wait_for_event(w, e, observed) ==
    LET g == WaitCommEvent(w, e, observed)
    IN  IF g.ok THEN [w |-> g.w, res |-> Ok(g.n)]
        ELSE [w |-> g.w, res |-> Err(g.err)]

WaitInputs ==
    [ports |-> Ports, bauds |-> {9600}, byteSizes |-> {8}, parities |-> {NOPARITY},
     stopBits |-> {ONESTOPBIT}, timeoutsMs |-> {40}, flags |-> {33},
     streams |-> {<<97, 10>>}, bufs |-> {<<>>}, delims |-> {10}, lens |-> {0, 1},
     masks |-> {EV_RXCHAR, EV_RXCHAR + EV_TXEMPTY}]

EventWaiter(D) ==
    /\ pc = "open"
    /\ waiter.state = "none"
    /\ waiter' = [waiter EXCEPT !.state = "idle"]
    /\ UNCHANGED <<pc, host, last, dcb>>

WaitForEventCall(D) ==
    /\ waiter.state = "idle"
    /\ waiter.waits < MaxWaits
    /\ waiter' = [waiter EXCEPT !.state = "waiting", !.since = host]
    /\ UNCHANGED <<pc, host, last, dcb>>

Waited(r) ==
    /\ host' = r.w.h
    /\ waiter' = [waiter EXCEPT !.state = "idle", !.waits = @ + 1, !.res = r.res,
                                !.calls = r.w.calls]
    /\ UNCHANGED <<pc, last, dcb>>

WaitForEventReturn(D) ==
    /\ waiter.state = "waiting"
    /\ \E observed \in D.masks, e \in CfgScripts(1) :
          Waited(wait_for_event(W, e, observed))

NextWait(D) ==
    \/ Next(D)
    \/ EventWaiter(D)
    \/ WaitForEventCall(D)
    \/ WaitForEventReturn(D)

SpecWait == Init(WaitInputs) /\ [][NextWait(WaitInputs)]_vars

(***************************************************************************)
(* The error translator on its own: every operation name the code passes,  *)
(* every host code from -2 to MaxCode.                                     *)
(***************************************************************************)
Operations == {"Open port", "GetCommState", "SetCommState", "SetCommTimeouts",
               "read", "write", "flush"}

HostCodes == (0 - 2)..MaxCode

InitErr ==
    /\ pc = "none"
    /\ host = Host0(33, <<>>)
    /\ last = NoOp
    /\ dcb = HostDCB(0)
    /\ waiter = NoWaiter

Translate ==
    /\ last = NoOp
    /\ \E operation \in Operations, error_code \in HostCodes :
          last' = [NoOp EXCEPT !.op = "system_to_io_err",
                               !.args = <<operation, error_code>>,
                               !.res = Err(system_to_io_err(operation, error_code))]
    /\ UNCHANGED <<pc, host, dcb, waiter>>

NextErr == Translate

SpecErr == InitErr /\ [][NextErr]_vars

(***************************************************************************)
(* The control-block codec on its own: a caller-held DCB with any flag     *)
(* word, and set_dtr_control applied to it any number of times.            *)
(***************************************************************************)
InitDCB ==
    /\ pc = "none"
    /\ host = Host0(33, <<>>)
    /\ last = NoOp
    /\ dcb \in {HostDCB(f) : f \in 0..DCBFlagsAll}
    /\ waiter = NoWaiter

SetDtrControl ==
    /\ \E control \in DTR_CONTROL :
          /\ dcb' = set_dtr_control(dcb, control)
          /\ last' = [NoOp EXCEPT !.op = "set_dtr_control", !.args = <<control>>,
                                  !.pre = dcb]
    /\ UNCHANGED <<pc, host, waiter>>

NextDCB == SetDtrControl

SpecDCB == InitDCB /\ [][NextDCB]_vars

(***************************************************************************)
(* Properties.  last is the operation that led to the current state: its   *)
(* arguments, its result, the host calls it issued with the host's         *)
(* answers, and the host state it started from (pre).                      *)
(***************************************************************************)
Last(q) == q[Len(q)]

\* C1: read on a zero-length buffer returns Ok(0) and issues no host call,
\* whatever the connection and the pending input are.
C1_ReadEmptyBuffer ==
    (last.op = "read" /\ last.args[1] = 0)
        => /\ last.res = Ok(0)
           /\ last.calls = <<>>
           /\ host = last.pre

C1_Witness ==
    /\ last.op = "read"
    /\ last.args[1] = 0
    /\ last.pre.stream # <<>>
    /\ last.res = Ok(0)

\* C2: read on a non-empty buffer never returns Ok(0): host success with zero
\* bytes is a timed-out error, host success with n > 0 bytes is Ok(n).
C2_ReadNeverOkZero ==
    (last.op = "read" /\ last.args[1] > 0)
        => /\ last.res # Ok(0)
           /\ Len(last.calls) = 1
           /\ last.calls[1].name = "ReadFile"
           /\ (last.calls[1].ret.ok /\ last.calls[1].ret.n = 0)
                 => (~last.res.ok /\ last.res.err.kind = "TimedOut")
           /\ (last.calls[1].ret.ok /\ last.calls[1].ret.n > 0)
                 => last.res = Ok(last.calls[1].ret.n)

C2_Witness ==
    /\ last.op = "read"
    /\ last.args[1] > 0
    /\ last.calls[1].ret.ok
    /\ last.calls[1].ret.n = 0
    /\ ~last.res.ok

\* The bytes of stream s that precede the first d (all of s when d is absent).
RECURSIVE BeforeFirst(_, _)
BeforeFirst(d, s) == IF s = <<>> \/ Head(s) = d THEN <<>>
                     ELSE <<Head(s)>> \o BeforeFirst(d, Tail(s))

\* C3: a successful read_until(D, buffer) returns the count of bytes this call
\* wrote into buffer, the bytes preceding the first D, for every prior content
\* of buffer.
C3_ReadUntilReturnsBytesWritten ==
    (last.op = "read_until" /\ last.res.ok)
        => /\ last.buf = last.args[2] \o BeforeFirst(last.args[1], last.pre.stream)
           /\ last.res.val = Len(last.buf) - Len(last.args[2])

\* C4: read_until whose read comes back with zero bytes before any D fails
\* with the error of kind Other, "Delimiter was not found", and buffer holds
\* every byte consumed.
C4_ReadUntilDelimiterNotFound ==
    (/\ last.op = "read_until"
     /\ Last(last.calls).ret.ok
     /\ Last(last.calls).ret.n = 0)
        => /\ ~last.res.ok
           /\ last.res.err = ErrorNew("Other", "Delimiter was not found")
           /\ last.buf = last.args[2] \o SubSeq(last.pre.stream, 1, Len(last.calls) - 1)

\* The kind the translator gives each host code according to the specification.
SpecifiedKind(error_code) ==
    CASE error_code = ERROR_ACCESS_DENIED -> "AlreadyExists"
      [] error_code = ERROR_FILE_NOT_FOUND -> "NotFound"
      [] error_code \in {ERROR_INVALID_USER_BUFFER, ERROR_INVALID_HANDLE} -> "InvalidInput"
      [] error_code = ERROR_NOT_ENOUGH_MEMORY -> "ResourceExhausted"
      [] error_code = ERROR_OPERATION_ABORTED -> "Interrupted"
      [] OTHER -> "Other"

\* The same table with not-enough-memory under Other.
TranslatedKind(error_code) ==
    IF error_code = ERROR_NOT_ENOUGH_MEMORY THEN "Other" ELSE SpecifiedKind(error_code)

\* C5 as stated: the translator maps not-enough-memory to resource-exhausted.
C5_TranslatorTableAsStated ==
    last.op = "system_to_io_err"
        => last.res.err.kind = SpecifiedKind(last.args[2])

\* C5 as amended: the translator is a total fixed mapping from host code to
\* kind, whatever the operation name: access-denied -> already-exists,
\* file-not-found -> not-found, invalid-user-buffer and invalid-handle ->
\* invalid-input, operation-aborted -> interrupted, and not-enough-memory like
\* every other code -> other.
C5_TranslatorTable ==
    last.op = "system_to_io_err"
        => last.res.err.kind = TranslatedKind(last.args[2])

C5_Witness ==
    /\ last.op = "system_to_io_err"
    /\ last.args[2] = ERROR_NOT_ENOUGH_MEMORY
    /\ last.res.err.kind = "Other"

\* The host calls whose failure the code turns into an io::Error.
CheckedCalls == {"CreateFileW", "GetCommState", "SetCommState", "SetCommTimeouts",
                 "ReadFile", "WriteFile", "FlushFileBuffers"}

FailedCalls(calls) ==
    {k \in 1..Len(calls) : calls[k].name \in CheckedCalls /\ ~calls[k].ret.ok}

\* The error text names the operation and holds the code in hexadecimal.
Carries(err, name, code) ==
    /\ Len(err.text) > 8
    /\ err.text[3] = name
    /\ SubSeq(err.text, 6, Len(err.text) - 3) = LowerHex(code)

PublicName(op) == IF op = "new" THEN "open" ELSE op

ReportedName(call) ==
    CASE call = "CreateFileW" -> "Open port"
      [] call = "ReadFile" -> "read"
      [] call = "WriteFile" -> "write"
      [] call = "FlushFileBuffers" -> "flush"
      [] OTHER -> call

\* C6 as stated: a host-call failure in open, read, write or flush yields an
\* error carrying the host code and the name of the public operation.
C6_ErrorNamesPublicOperation ==
    last.op \in {"new", "read", "write", "flush"}
        => \A k \in FailedCalls(last.calls) :
              /\ ~last.res.ok
              /\ Carries(last.res.err, PublicName(last.op), last.calls[k].ret.err)

\* C6 as amended: when the operation returns, the error carries the host code
\* and the name the code gives the failed call: "Open port" for the open call,
\* "GetCommState", "SetCommState", "SetCommTimeouts" for the configuration
\* calls of new, and "read", "write", "flush".
C6_ErrorNamesFailedCall ==
    (last.op \in {"new", "read", "write", "flush"} /\ ~last.panicked)
        => \A k \in FailedCalls(last.calls) :
              /\ ~last.res.ok
              /\ Carries(last.res.err, ReportedName(last.calls[k].name),
                         last.calls[k].ret.err)

C6_Witness ==
    /\ last.op = "new"
    /\ ~last.calls[1].ret.ok
    /\ last.calls[1].ret.err = UnmatchedCode
    /\ Carries(last.res.err, "Open port", UnmatchedCode)

\* The two DTR bits of a flag word: <<high, low>>.
DtrBits(flags) == <<(flags \div DCBFDtrControl_hi) % 2, (flags \div DCBFDtrControl_lo) % 2>>

\* C7: set_dtr_control leaves the DTR bits in the pattern of its mode, whatever
\* the flag word was: DISABLE 00, ENABLE 01, HANDSHAKE 11, and never 10.
C7_DtrPattern ==
    last.op = "set_dtr_control"
        => /\ DtrBits(dcb.flags) = (CASE last.args[1] = "DISABLE" -> <<0, 0>>
                                      [] last.args[1] = "ENABLE" -> <<0, 1>>
                                      [] last.args[1] = "HANDSHAKE" -> <<1, 1>>)
           /\ DtrBits(dcb.flags) # <<1, 0>>

C7_Witness ==
    /\ last.op = "set_dtr_control"
    /\ last.args[1] = "ENABLE"
    /\ DtrBits(last.pre.flags) = <<1, 0>>
    /\ DtrBits(dcb.flags) = <<0, 1>>

\* C8 as stated: when the open succeeds and a later step of new fails, new
\* returns that step's error, runs no later step and closes the handle once.
C8_FailedConfigurationReturnsError ==
    (last.op = "new" /\ last.calls[1].ret.ok)
        => \A k \in FailedCalls(last.calls) :
              /\ Len(last.calls) = k + 1
              /\ last.calls[k + 1].name = "CloseHandle"
              /\ host.closes = 1
              /\ ~last.panicked
              /\ ~last.res.ok
              /\ Carries(last.res.err, last.calls[k].name, last.calls[k].ret.err)

\* C8 as amended: when the open succeeds and a later step of new fails, no
\* later step runs and the handle is closed exactly once; new returns that
\* step's error when the close succeeds and panics when the close fails.
C8_FailedConfigurationClosesHandle ==
    (last.op = "new" /\ last.calls[1].ret.ok)
        => \A k \in FailedCalls(last.calls) :
              /\ Len(last.calls) = k + 1
              /\ last.calls[k + 1].name = "CloseHandle"
              /\ host.closes = 1
              /\ last.panicked = ~last.calls[k + 1].ret.ok
              /\ ~last.panicked
                    => /\ ~last.res.ok
                       /\ Carries(last.res.err, last.calls[k].name, last.calls[k].ret.err)
                       /\ pc = "failed"

C8_Witness ==
    /\ last.op = "new"
    /\ last.calls[1].ret.ok
    /\ \E k \in FailedCalls(last.calls) : k > 3 /\ last.calls[k].name = "SetCommState"
    /\ ~last.panicked
    /\ host.closes = 1
    /\ host.handle = "closed"

\* C9: the handle of a Connection returned by new is closed exactly once, by
\* its destruction: not while the Connection lives, not twice, and no host
\* call on the handle follows the close.
C9_ClosedExactlyOnceOnDrop ==
    /\ pc \in {"none", "open"} => host.closes = 0
    /\ pc = "open" => host.handle = "open"
    /\ last.op = "drop"
          => /\ host.closes = 1
             /\ Len(last.calls) = 1
             /\ last.calls[1].name = "CloseHandle"
             /\ pc \in {"dropped", "panicked"}
    /\ pc = "dropped" => host.handle = "closed"
    /\ \A i \in 1..Len(last.calls) :
          last.calls[i].name = "CloseHandle" => i = Len(last.calls)
    /\ ~host.stale

C9_Witness ==
    /\ pc = "dropped"
    /\ last.op = "drop"
    /\ host.closes = 1
    /\ host.dcb.ByteSize = 7
    /\ host.stream = <<>>

\* C10: when the host open fails, new returns the translated error, not-found
\* for a port that does not exist, and has issued no other host call.
C10_OpenFailureStopsNew ==
    (last.op = "new" /\ ~last.calls[1].ret.ok)
        => /\ Len(last.calls) = 1
           /\ last.calls[1].name = "CreateFileW"
           /\ ~last.res.ok
           /\ ~last.panicked
           /\ last.res.err.kind = TranslatedKind(last.calls[1].ret.err)
           /\ Carries(last.res.err, "Open port", last.calls[1].ret.err)
           /\ last.args[1] \notin host.ports => last.res.err.kind = "NotFound"
           /\ host = last.pre
           /\ pc = "failed"

C10_Witness ==
    /\ last.op = "new"
    /\ last.args[1] = COM9
    /\ Len(last.calls) = 1
    /\ ~last.res.ok
    /\ last.res.err.kind = "NotFound"

Mutators == {"set_baud_rate", "set_byte_size", "set_parity", "set_stop_bits"}

MutatorField(op) ==
    CASE op = "set_baud_rate" -> "BaudRate"
      [] op = "set_byte_size" -> "ByteSize"
      [] op = "set_parity" -> "Parity"
      [] op = "set_stop_bits" -> "StopBits"

\* C11: a successful mutator reads the host's control block and writes back
\* that block with its one field replaced: after it every other field of the
\* host's block, the flag word included, has the value it had before the
\* call, in every sequence of mutator calls.
C11_MutatorsChangeOneField ==
    (last.op \in Mutators /\ last.res.ok)
        => /\ Len(last.calls) = 2
           /\ last.calls[1].name = "GetCommState"
           /\ last.calls[2].name = "SetCommState"
           /\ DOMAIN last.calls[2].arg = DOMAIN last.pre.dcb
           /\ \A f \in DOMAIN last.pre.dcb :
                 last.calls[2].arg[f] = IF f = MutatorField(last.op) THEN last.args[1]
                                        ELSE last.pre.dcb[f]
           /\ host.dcb = last.calls[2].arg
           /\ host.timeouts = last.pre.timeouts

C11_Witness ==
    /\ last.op = "set_stop_bits"
    /\ last.res.ok
    /\ last.args[1] = 2
    /\ last.pre.dcb.StopBits = ONESTOPBIT
    /\ host.dcb.StopBits = 2
    /\ host.dcb.BaudRate = 115200
    /\ host.dcb.ByteSize = 7
    /\ host.dcb.Parity = 2
    /\ host.dcb.flags = 65503

TimeoutFields == {"ReadIntervalTimeout", "ReadTotalTimeoutMultiplier",
                  "ReadTotalTimeoutConstant", "WriteTotalTimeoutMultiplier",
                  "WriteTotalTimeoutConstant"}

Uniform(t, ms) == DOMAIN t = TimeoutFields /\ \A f \in TimeoutFields : t[f] = ms

\* C12: every timeout block handed to the host has its five fields equal to
\* the scalar of the call (40 in new); an open Connection's host timeouts
\* are the five-fold last value set: new leaves 40, a successful set_timeout
\* leaves its argument, and nothing else changes them.
C12_TimeoutsUniform ==
    /\ \A k \in 1..Len(last.calls) :
          last.calls[k].name = "SetCommTimeouts"
             => /\ last.op \in {"new", "set_timeout"}
                /\ Uniform(last.calls[k].arg, IF last.op = "new" THEN 40 ELSE last.args[1])
    /\ (last.op = "new" /\ pc = "open") => Uniform(host.timeouts, 40)
    /\ (last.op = "set_timeout" /\ last.res.ok) => Uniform(host.timeouts, last.args[1])
    /\ (last.op = "set_timeout" /\ ~last.res.ok) => host.timeouts = last.pre.timeouts
    /\ (last.op \notin {"none", "new", "set_timeout"}) => host.timeouts = last.pre.timeouts
    /\ pc = "open" => Uniform(host.timeouts, host.timeouts.ReadIntervalTimeout)

C12_Witness ==
    /\ last.op = "set_timeout"
    /\ last.res.ok
    /\ last.args[1] = 0
    /\ Uniform(last.pre.timeouts, 40)
    /\ Uniform(host.timeouts, 0)

CallNames(calls) == [k \in 1..Len(calls) |-> calls[k].name]

\* The flag word with the DTR bits set to ENABLE (high clear, low set) and the
\* other fourteen bits as they are.
WithDtrEnable(flags) ==
    (flags \div 64) * 64 + DCBFDtrControl_lo + (flags % 16)

\* C14: a successful new issues exactly these host calls in this order: open;
\* get and set of the control block with DTR = ENABLE; get and set with the
\* baud rate; with byte size 8; with one stop bit; with no parity; the purge
\* of both directions; the timeouts of 40.  Each set writes the block just
\* read with one change, and Ok(conn) is returned only when the last call
\* has succeeded.
C14_OpenSequence ==
    (last.op = "new" /\ last.res.ok /\ ~last.panicked)
        => /\ CallNames(last.calls) =
                 <<"CreateFileW",
                   "GetCommState", "SetCommState", "GetCommState", "SetCommState",
                   "GetCommState", "SetCommState", "GetCommState", "SetCommState",
                   "GetCommState", "SetCommState", "PurgeComm", "SetCommTimeouts">>
           /\ last.calls[1].arg = Append(last.args[1], 0)
           /\ last.calls[3].arg = [last.pre.dcb EXCEPT !.flags = WithDtrEnable(@)]
           /\ last.calls[5].arg = [last.calls[3].arg EXCEPT !.BaudRate = last.args[2]]
           /\ last.calls[7].arg = [last.calls[5].arg EXCEPT !.ByteSize = 8]
           /\ last.calls[9].arg = [last.calls[7].arg EXCEPT !.StopBits = ONESTOPBIT]
           /\ last.calls[11].arg = [last.calls[9].arg EXCEPT !.Parity = NOPARITY]
           /\ last.calls[12].arg = 4 + 8
           /\ \A f \in DOMAIN last.calls[13].arg : last.calls[13].arg[f] = 40
           /\ \A k \in 1..13 : k # 12 => last.calls[k].ret.ok
           /\ host.dcb = last.calls[11].arg
           /\ pc = "open"

C14_Witness ==
    /\ last.op = "new"
    /\ pc = "open"
    /\ Len(last.calls) = 13
    /\ last.args[2] = 115200
    /\ last.pre.dcb.flags = 65487
    /\ host.dcb.flags = 65503
    /\ host.dcb.BaudRate = 115200

\* C15: when the purge of new fails and every other step succeeds, new goes
\* on to set the timeouts and returns the Connection; the failure of every
\* other host call ends its operation in an error or in the panic of drop.
C15_PurgeBestEffort ==
    /\ \A k \in 1..Len(last.calls) :
          (last.calls[k].name = "PurgeComm" /\ ~last.calls[k].ret.ok)
             => /\ last.op = "new"
                /\ Len(last.calls) > k
                /\ last.calls[k + 1].name = "SetCommTimeouts"
                /\ last.calls[k + 1].ret.ok
                      => /\ last.res = Ok("conn")
                         /\ ~last.panicked
                         /\ pc = "open"
                         /\ host.handle = "open"
                         /\ \A f \in DOMAIN host.timeouts : host.timeouts[f] = 40
    /\ \A k \in 1..Len(last.calls) :
          (last.calls[k].name # "PurgeComm" /\ ~last.calls[k].ret.ok)
             => (~last.res.ok \/ last.panicked)

C15_Witness ==
    /\ last.op = "new"
    /\ Len(last.calls) = 13
    /\ ~last.calls[12].ret.ok
    /\ last.res = Ok("conn")
    /\ pc = "open"

\* C16: a CloseHandle that reports failure, in drop or in the drop that
\* follows a failed configuration step of new, ends in the panic: the
\* operation returns nothing and nothing runs after it.
C16_CloseFailurePanics ==
    /\ \A k \in 1..Len(last.calls) :
          (last.calls[k].name = "CloseHandle" /\ ~last.calls[k].ret.ok)
             => /\ last.op \in {"new", "drop"}
                /\ k = Len(last.calls)
                /\ last.panicked
                /\ pc = "panicked"
    /\ last.panicked <=> pc = "panicked"
    /\ pc = "panicked" => ~ENABLED Next(CfgInputs)

C16_Witness ==
    /\ last.op = "new"
    /\ pc = "panicked"
    /\ Len(last.calls) > 2
    /\ ~last.calls[Len(last.calls) - 1].ret.ok
    /\ ~Last(last.calls).ret.ok
    /\ Last(last.calls).name = "CloseHandle"

\* C17: set_dtr_control changes nothing but the two DTR bits: the other
\* fourteen bits of the flag word and every other field of the block are as
\* before, for every mode and every flag word; applying the mode again
\* changes nothing.
C17_DtrFrame ==
    last.op = "set_dtr_control"
        => /\ dcb.flags % DCBFDtrControl_lo = last.pre.flags % DCBFDtrControl_lo
           /\ dcb.flags \div (2 * DCBFDtrControl_hi)
                 = last.pre.flags \div (2 * DCBFDtrControl_hi)
           /\ dcb.flags \in 0..DCBFlagsAll
           /\ DOMAIN dcb = DOMAIN last.pre
           /\ \A f \in DOMAIN dcb \ {"flags"} : dcb[f] = last.pre[f]
           /\ set_dtr_control(dcb, last.args[1]) = dcb

C17_Witness ==
    /\ last.op = "set_dtr_control"
    /\ last.args[1] = "HANDSHAKE"
    /\ last.pre.flags = 43690
    /\ dcb.flags = 43706

\* C18: a mutator whose read of the control block fails returns that error
\* and issues no SetCommState: the host is as it was before the call.
C18_FailedReadWritesNothing ==
    (last.op \in Mutators /\ ~last.calls[1].ret.ok)
        => /\ Len(last.calls) = 1
           /\ last.calls[1].name = "GetCommState"
           /\ ~last.res.ok
           /\ Carries(last.res.err, "GetCommState", last.calls[1].ret.err)
           /\ host = last.pre

C18_Witness ==
    /\ last.op = "set_parity"
    /\ last.args[1] = 2
    /\ ~last.calls[1].ret.ok
    /\ ~last.res.ok
    /\ host.dcb.Parity = NOPARITY

ReadUntilDelim == IF last.op = "read_line" THEN 10 ELSE last.args[1]

ReadUntilPrior == IF last.op = "read_line" THEN last.args[1] ELSE last.args[2]

\* C19: read_until asks the host for one byte per read; on success it has
\* consumed the stream up to and including the first D and nothing after it,
\* and buffer is its prior content followed by the consumed bytes before D,
\* in stream order, without D.
C19_ReadUntilConsumesToDelimiter ==
    last.op \in {"read_until", "read_line"}
        => /\ \A k \in 1..Len(last.calls) :
                 last.calls[k].name = "ReadFile" /\ last.calls[k].arg = 1
           /\ last.res.ok
                 => LET taken == BeforeFirst(ReadUntilDelim, last.pre.stream)
                    IN  /\ Len(taken) < Len(last.pre.stream)
                        /\ Len(last.calls) = Len(taken) + 1
                        /\ host.stream = SubSeq(last.pre.stream, Len(taken) + 2,
                                                 Len(last.pre.stream))
                        /\ last.buf = ReadUntilPrior \o taken
                        /\ \A i \in 1..Len(taken) : taken[i] # ReadUntilDelim

C19_Witness ==
    /\ last.op = "read_until"
    /\ last.res.ok
    /\ last.args = <<10, <<10>> >>
    /\ last.pre.stream = <<97, 10, 97>>
    /\ last.buf = <<10, 97>>
    /\ host.stream = <<97>>

\* C13: the Event Waiter waits on the Connection's handle while the
\* Connection reads and writes, and never closes it: in every interleaving
\* a step that closes the handle is the Connection's destruction, in drop or
\* at the end of a failed new, and no host call of the waiter is a close.
C13_OnlyDestructionCloses ==
    [][/\ (host'.closes # host.closes \/ (host'.handle = "closed" /\ host.handle # "closed"))
          => /\ waiter' = waiter
             /\ last'.op \in {"new", "drop"}
             /\ last' # last
             /\ Last(last'.calls).name = "CloseHandle"
             /\ host'.closes = 1
       /\ \A k \in 1..Len(waiter'.calls) : waiter'.calls[k].name = "WaitCommEvent"
       /\ waiter' # waiter => (host'.handle = host.handle /\ host'.closes = host.closes)
      ]_vars

C13_Witness ==
    /\ waiter.state = "waiting"
    /\ waiter.waits = 1
    /\ waiter.res = Ok(EV_RXCHAR + EV_TXEMPTY)
    /\ waiter.since.handle = "open"
    /\ waiter.since.stream # host.stream
    /\ pc = "dropped"
    /\ last.op = "drop"
    /\ host.closes = 1

====
